---- MODULE Spec2Model ----
(***************************************************************************)
(* Model of the rediopy client SDK (sdk/rediopy/contract/__init__.py):     *)
(* program-derived address derivation and the six instruction encoders of  *)
(* class RedioContract, plus the submission wrapper send_transaction.      *)
(*                                                                         *)
(* Representation choices                                                  *)
(*  - bytes objects are sequences of 0..255.                               *)
(*  - a Python int is a sign and a magnitude in little-endian base-65536   *)
(*    limbs without leading zero limbs (TLC integers are 32 bits wide, the *)
(*    encoders pack 64 bit fields).                                        *)
(*  - a str is a sequence of Unicode code points.                          *)
(*  - an address (Pubkey) is AddrLen bytes; SHA-256 and the ed25519 curve  *)
(*    test of Pubkey.find_program_address are replaced by a small          *)
(*    deterministic digest and a deterministic predicate on digests.       *)
(***************************************************************************)
EXTENDS Integers, Sequences, FiniteSets, TLC

VARIABLES
    PROGRAM_ID,                   \* class attribute RedioContract.PROGRAM_ID
    TOKEN_PROGRAM_ID,             \* class attribute RedioContract.TOKEN_PROGRAM_ID
    ASSOCIATED_TOKEN_PROGRAM_ID,  \* class attribute
    DISCRIMINATORS,               \* class attribute: operation name -> 8 bytes
    last,                         \* the completed call whose result the caller holds
    remembered,                   \* an earlier derivation call kept for comparison
    between,                      \* calls were made since `remembered` was taken
    callers,                      \* concurrent callers: position and locals of each
    genpy                         \* a run of the IDL fix-up script and its files

vars == <<PROGRAM_ID, TOKEN_PROGRAM_ID, ASSOCIATED_TOKEN_PROGRAM_ID,
          DISCRIMINATORS, last, remembered, between, callers, genpy>>

classVars == <<PROGRAM_ID, TOKEN_PROGRAM_ID, ASSOCIATED_TOKEN_PROGRAM_ID,
               DISCRIMINATORS>>

---------------------------------------------------------------------------
(* Bounds of the model.                                                    *)

\* bytes per address (32 in the program)
AddrLen == 2
\* number of distinct wallet keypairs the callers use
NumKeys == 2
\* longest ref_id, in code points
MaxRefLen == 2

\* The largest bump seed tried by Pubkey.find_program_address (u8::MAX).
MAX_BUMP == 255

---------------------------------------------------------------------------
(* Byte strings.                                                           *)

Byte == 0..255

RECURSIVE Concat(_)
\* b"".join(parts)
Concat(parts) ==
    IF parts = <<>> THEN <<>> ELSE Head(parts) \o Concat(Tail(parts))

\* the address made of first byte n, every other byte fill
MkAddr(n, fill) == [i \in 1..AddrLen |-> IF i = 1 THEN n ELSE fill]

\* Keypair().pubkey() of the n-th wallet
Key(n) == MkAddr(n, 0)
Keys == {Key(n) : n \in 1..NumKeys}
\* the token mint the callers pass as usdc_mint
Mints == {MkAddr(200, 0)}

\* solders.system_program.ID: the all-zero address
SYS_PROGRAM_ID == MkAddr(0, 0)
\* Pubkey.from_string(...) of the three class constants
InitProgramId == MkAddr(1, 255)
InitTokenProgramId == MkAddr(2, 255)
InitAssociatedTokenProgramId == MkAddr(3, 255)

InitDiscriminators ==
    [name \in {"initialize_pool", "add_affiliate", "process_sale",
               "remove_affiliate", "deposit_escrow", "withdraw_escrow"} |->
        CASE name = "initialize_pool"  -> <<95, 180, 10, 172, 84, 174, 232, 40>>
          [] name = "add_affiliate"    -> <<221, 239, 60, 159, 213, 45, 221, 87>>
          [] name = "process_sale"     -> <<103, 228, 248, 104, 78, 46, 193, 82>>
          [] name = "remove_affiliate" -> <<146, 218, 182, 122, 118, 1, 69, 31>>
          [] name = "deposit_escrow"   -> <<226, 112, 158, 176, 178, 118, 153, 128>>
          [] name = "withdraw_escrow"  -> <<81, 84, 226, 128, 245, 47, 96, 104>>]

\* b"pool", b"escrow_authority", b"affiliate"
TagPool == <<112, 111, 111, 108>>
TagEscrowAuthority ==
    <<101, 115, 99, 114, 111, 119, 95, 97, 117, 116, 104, 111, 114, 105, 116, 121>>
TagAffiliate == <<97, 102, 102, 105, 108, 105, 97, 116, 101>>
\* b"ProgramDerivedAddress", the marker hashed after the program id
PDA_MARKER ==
    <<80, 114, 111, 103, 114, 97, 109, 68, 101, 114, 105, 118, 101, 100,
      65, 100, 100, 114, 101, 115, 115>>

---------------------------------------------------------------------------
(* Python integers and struct.pack.                                        *)

Nat0(mag) == [neg |-> FALSE, mag |-> mag]
NegInt(mag) == [neg |-> TRUE, mag |-> mag]

\* the value fits an unsigned field of `limbs` 16-bit limbs
FitsUnsigned(v, limbs) == ~v.neg /\ Len(v.mag) <= limbs

\* the two bytes of one limb, low byte first
LimbLE(l) == <<l % 256, l \div 256>>
\* the two bytes of one limb, high byte first
LimbBE(l) == <<l \div 256, l % 256>>

\* magnitude padded with zero limbs to n limbs
PadLimbs(mag, n) == [i \in 1..n |-> IF i <= Len(mag) THEN mag[i] ELSE 0]

RECURSIVE LimbsLE(_)
LimbsLE(limbs) ==
    IF limbs = <<>> THEN <<>> ELSE LimbLE(Head(limbs)) \o LimbsLE(Tail(limbs))

RECURSIVE LimbsBE(_)
LimbsBE(limbs) ==
    IF limbs = <<>> THEN <<>> ELSE LimbsBE(Tail(limbs)) \o LimbBE(Head(limbs))

ERR == [ok |-> FALSE, bytes |-> <<>>]
OK(bytes) == [ok |-> TRUE, bytes |-> bytes]

\* struct.pack(">H", v): the byte order swapped
pack_H_big_endian(v) ==
    IF FitsUnsigned(v, 1) THEN OK(LimbsBE(PadLimbs(v.mag, 1))) ELSE ERR

\* struct.pack("<H", v) behind a client-side check v <= 10000
pack_H_range_checked(v) ==
    IF FitsUnsigned(v, 1) /\ PadLimbs(v.mag, 1)[1] <= 10000
    THEN OK(LimbsLE(PadLimbs(v.mag, 1))) ELSE ERR

\* struct.pack("<H", v): struct.error unless 0 <= v < 2^16
pack_H(v) ==
    IF FitsUnsigned(v, 1) THEN OK(LimbsLE(PadLimbs(v.mag, 1))) ELSE ERR

\* a packing that keeps the low 64 bits instead of raising
pack_Q_wrapping(v) == OK(LimbsLE(PadLimbs(v.mag, 4)))

\* struct.pack("<Q", v): struct.error unless 0 <= v < 2^64
pack_Q(v) ==
    IF FitsUnsigned(v, 4) THEN OK(LimbsLE(PadLimbs(v.mag, 4))) ELSE ERR

\* struct.pack("<I", n) of a small natural n (a len() result)
pack_I(n) ==
    OK(<<n % 256, (n \div 256) % 256, (n \div 65536) % 256,
         (n \div 16777216) % 256>>)

---------------------------------------------------------------------------
(* str.encode("utf-8").                                                    *)

IsSurrogate(cp) == 55296 <= cp /\ cp <= 57343

\* the UTF-8 bytes of one code point (not a surrogate)
utf8_char(cp) ==
    IF cp < 128 THEN <<cp>>
    ELSE IF cp < 2048 THEN <<192 + (cp \div 64), 128 + (cp % 64)>>
    ELSE IF cp < 65536 THEN
        <<224 + (cp \div 4096), 128 + ((cp \div 64) % 64), 128 + (cp % 64)>>
    ELSE
        <<240 + (cp \div 262144), 128 + ((cp \div 4096) % 64),
          128 + ((cp \div 64) % 64), 128 + (cp % 64)>>

RECURSIVE utf8_bytes(_)
utf8_bytes(s) ==
    IF s = <<>> THEN <<>> ELSE utf8_char(Head(s)) \o utf8_bytes(Tail(s))

\* ref_id.encode("utf-8"): UnicodeEncodeError on a lone surrogate
str_encode(s) ==
    IF \E i \in 1..Len(s) : IsSurrogate(s[i]) THEN ERR ELSE OK(utf8_bytes(s))

---------------------------------------------------------------------------
(* Pubkey.find_program_address.                                            *)

RECURSIVE Pow256(_)
Pow256(n) == IF n = 0 THEN 1 ELSE 256 * Pow256(n - 1)

\* the digests are the numbers below 256^AddrLen
HashModulus == Pow256(AddrLen)

\* one byte absorbed into the running digest
Mix(h, b) == (h * 31 + b + 1) % HashModulus

RECURSIVE Absorb(_, _, _)
\* the running digest after bytes[i], bytes[i+1], ... (four bytes a round)
Absorb(h, bytes, i) ==
    IF i + 3 <= Len(bytes) THEN
        Absorb(Mix(Mix(Mix(Mix(h, bytes[i]), bytes[i + 1]), bytes[i + 2]),
                   bytes[i + 3]), bytes, i + 4)
    ELSE IF i <= Len(bytes) THEN Absorb(Mix(h, bytes[i]), bytes, i + 1)
    ELSE h

\* the digest of a byte string, AddrLen bytes (stands for SHA-256)
sha256(bytes) ==
    LET h == Absorb(7, bytes, 1)
    IN  [i \in 1..AddrLen |-> (h \div Pow256(i - 1)) % 256]

\* the digest decodes to a point of the ed25519 curve (about half of them do)
is_on_curve(d) == ((d[1] \div 8) + d[AddrLen]) % 2 = 1

\* Pubkey.create_program_address(seeds + [bump], program_id): the candidate
create_program_address(seeds, bump, program_id) ==
    sha256(Concat(seeds) \o <<bump>> \o program_id \o PDA_MARKER)

NO_ADDRESS == [ok |-> FALSE, addr |-> <<>>, bump |-> 0]

RECURSIVE search_bump_ascending(_, _, _)
\* a bump search that counts up from the low end
search_bump_ascending(seeds, program_id, bump) ==
    IF bump > MAX_BUMP THEN NO_ADDRESS
    ELSE LET d == create_program_address(seeds, bump, program_id)
         IN  IF ~is_on_curve(d) THEN [ok |-> TRUE, addr |-> d, bump |-> bump]
             ELSE search_bump_ascending(seeds, program_id, bump + 1)

RECURSIVE search_bump(_, _, _)
\* the loop of find_program_address: the bump seed starts at MAX_BUMP and is
\* decremented after each candidate that lies on the curve; the loop makes
\* MAX_BUMP rounds, so the candidates are MAX_BUMP, ..., 1
search_bump(seeds, program_id, bump) ==
    IF bump < 1 THEN NO_ADDRESS
    ELSE LET d == create_program_address(seeds, bump, program_id)
         IN  IF ~is_on_curve(d) THEN [ok |-> TRUE, addr |-> d, bump |-> bump]
             ELSE search_bump(seeds, program_id, bump - 1)

\* a search from the low end, as a mutation of find_program_address
find_program_address_ascending(seeds, program_id) ==
    search_bump_ascending(seeds, program_id, 1)

\* Pubkey.find_program_address(seeds, program_id) -> (address, bump)
find_program_address(seeds, program_id) ==
    search_bump(seeds, program_id, MAX_BUMP)

---------------------------------------------------------------------------
(* The derivations of RedioContract (static methods).                      *)

find_pool_pda(merchant) ==
    find_program_address(<<TagPool, merchant>>, PROGRAM_ID)

find_escrow_authority_pda(pool) ==
    find_program_address(<<TagEscrowAuthority, pool>>, PROGRAM_ID)

find_affiliate_pda(pool, wallet) ==
    find_program_address(<<TagAffiliate, pool, wallet>>, PROGRAM_ID)

\* the whole (address, bump) pair; the method returns element [0] of it
find_associated_token_address(owner, mint) ==
    find_program_address(<<owner, TOKEN_PROGRAM_ID, mint>>,
                         ASSOCIATED_TOKEN_PROGRAM_ID)

---------------------------------------------------------------------------
(* The instruction encoders of RedioContract.                              *)

AccountMeta(pubkey, is_signer, is_writable) ==
    [pubkey |-> pubkey, is_signer |-> is_signer, is_writable |-> is_writable]

\* `data += suffix` with data bound to the bytearray-like entry table[name]:
\* an in-place extension of the shared entry
iadd_in_place(table, name, suffix) ==
    [table EXCEPT ![name] = @ \o suffix]

\* `data += suffix` with data bound to table[name]: what the statement does
\* to the class-level table.  bytes are immutable, the statement rebinds the
\* local name to a fresh object and the entry keeps its value.
iadd_table(table, name, suffix) == table

RECURSIVE append_fields(_, _, _, _, _)
\* the `data += ...` statements of one encoder in order, stopping at the
\* first one whose right-hand side raises.  appended counts those done.
append_fields(table, name, data, fields, appended) ==
    IF fields = <<>> THEN
        [ok |-> TRUE, data |-> data, table |-> table, appended |-> appended]
    ELSE IF ~Head(fields).ok THEN
        [ok |-> FALSE, data |-> <<>>, table |-> table, appended |-> appended]
    ELSE append_fields(iadd_table(table, name, Head(fields).bytes), name,
                       data \o Head(fields).bytes, Tail(fields), appended + 1)

\* a call that raised
Raised(status, appended, table) ==
    [status |-> status, program_id |-> <<>>, data |-> <<>>, accounts |-> <<>>,
     appended |-> appended, table |-> table]

\* Instruction(self.PROGRAM_ID, data, accounts)
Instruction(data, accounts, appended, table) ==
    [status |-> "ok", program_id |-> PROGRAM_ID, data |-> data,
     accounts |-> accounts, appended |-> appended, table |-> table]

\* one encoder from its parts: the derivations (in call order), the result of
\* ref_id.encode where there is one, data = DISCRIMINATORS[name], the
\* `data +=` statements, the account list
encoder(name, derivations, encoded, fields, accounts) ==
    IF \E i \in 1..Len(derivations) : ~derivations[i].ok THEN
        Raised("exhausted", 0, DISCRIMINATORS)
    ELSE IF ~encoded.ok THEN
        Raised("UnicodeEncodeError", 0, DISCRIMINATORS)
    ELSE LET packed == append_fields(DISCRIMINATORS, name,
                                     DISCRIMINATORS[name], fields, 0)
         IN  IF ~packed.ok THEN
                 Raised("struct.error", packed.appended, packed.table)
             ELSE Instruction(packed.data, accounts, packed.appended,
                              packed.table)

initialize_pool_fields(commission_rate, initial_deposit) ==
    <<pack_H(commission_rate), pack_Q(initial_deposit)>>

initialize_pool_accounts(pool_pda, merchant, merchant_usdc, escrow_authority, escrow_usdc, usdc_mint) ==
    << AccountMeta(pool_pda, FALSE, TRUE),
       AccountMeta(merchant, TRUE, TRUE),
       AccountMeta(merchant_usdc, FALSE, TRUE),
       AccountMeta(escrow_authority, FALSE, FALSE),
       AccountMeta(escrow_usdc, FALSE, TRUE),
       AccountMeta(usdc_mint, FALSE, FALSE),
       AccountMeta(TOKEN_PROGRAM_ID, FALSE, FALSE),
       AccountMeta(ASSOCIATED_TOKEN_PROGRAM_ID, FALSE, FALSE),
       AccountMeta(SYS_PROGRAM_ID, FALSE, FALSE) >>

initialize_pool_ix(merchant, usdc_mint, commission_rate, initial_deposit) ==
    LET pool_pda == find_pool_pda(merchant)
        escrow_authority == find_escrow_authority_pda(pool_pda.addr)
        merchant_usdc == find_associated_token_address(merchant, usdc_mint)
        escrow_usdc ==
            find_associated_token_address(escrow_authority.addr, usdc_mint)
    IN  encoder("initialize_pool",
                <<pool_pda, escrow_authority, merchant_usdc, escrow_usdc>>,
                OK(<<>>),
                initialize_pool_fields(commission_rate, initial_deposit),
                initialize_pool_accounts(pool_pda.addr, merchant,
                    merchant_usdc.addr, escrow_authority.addr,
                    escrow_usdc.addr, usdc_mint))

\* the length prefix counting characters instead of encoded bytes
add_affiliate_fields_char_count(ref_id, ref_id_bytes) ==
    <<pack_I(Len(ref_id)), OK(ref_id_bytes)>>

add_affiliate_fields(ref_id, ref_id_bytes) ==
    <<pack_I(Len(ref_id_bytes)), OK(ref_id_bytes)>>

add_affiliate_accounts(pool_pda, affiliate_pda, affiliate_wallet, merchant) ==
    << AccountMeta(pool_pda, FALSE, FALSE),
       AccountMeta(affiliate_pda, FALSE, TRUE),
       AccountMeta(affiliate_wallet, FALSE, FALSE),
       AccountMeta(merchant, TRUE, TRUE),
       AccountMeta(SYS_PROGRAM_ID, FALSE, FALSE) >>

add_affiliate_ix(merchant, affiliate_wallet, ref_id) ==
    LET pool_pda == find_pool_pda(merchant)
        affiliate_pda == find_affiliate_pda(pool_pda.addr, affiliate_wallet)
        ref_id_bytes == str_encode(ref_id)
    IN  encoder("add_affiliate", <<pool_pda, affiliate_pda>>, ref_id_bytes,
                add_affiliate_fields(ref_id, ref_id_bytes.bytes),
                add_affiliate_accounts(pool_pda.addr, affiliate_pda.addr,
                                       affiliate_wallet, merchant))

process_sale_fields(sale_amount) == <<pack_Q(sale_amount)>>

process_sale_accounts(pool_pda, affiliate_pda, affiliate_wallet, escrow_authority, escrow_usdc, affiliate_usdc, usdc_mint, authority) ==
    << AccountMeta(pool_pda, FALSE, TRUE),
       AccountMeta(affiliate_pda, FALSE, TRUE),
       AccountMeta(affiliate_wallet, FALSE, TRUE),
       AccountMeta(escrow_authority, FALSE, FALSE),
       AccountMeta(escrow_usdc, FALSE, TRUE),
       AccountMeta(affiliate_usdc, FALSE, TRUE),
       AccountMeta(usdc_mint, FALSE, FALSE),
       AccountMeta(authority, TRUE, TRUE),
       AccountMeta(TOKEN_PROGRAM_ID, FALSE, FALSE),
       AccountMeta(ASSOCIATED_TOKEN_PROGRAM_ID, FALSE, FALSE),
       AccountMeta(SYS_PROGRAM_ID, FALSE, FALSE) >>

\* a process_sale_ix that derives the pool from the signing authority
process_sale_ix_authority_pool(authority, merchant, affiliate_wallet, usdc_mint, sale_amount) ==
    LET pool_pda == find_pool_pda(authority)
        affiliate_pda == find_affiliate_pda(pool_pda.addr, affiliate_wallet)
        escrow_authority == find_escrow_authority_pda(pool_pda.addr)
        escrow_usdc ==
            find_associated_token_address(escrow_authority.addr, usdc_mint)
        affiliate_usdc ==
            find_associated_token_address(affiliate_wallet, usdc_mint)
    IN  encoder("process_sale",
                <<pool_pda, affiliate_pda, escrow_authority, escrow_usdc,
                  affiliate_usdc>>,
                OK(<<>>),
                process_sale_fields(sale_amount),
                process_sale_accounts(pool_pda.addr, affiliate_pda.addr,
                    affiliate_wallet, escrow_authority.addr, escrow_usdc.addr,
                    affiliate_usdc.addr, usdc_mint, authority))

process_sale_ix(authority, merchant, affiliate_wallet, usdc_mint, sale_amount) ==
    LET pool_pda == find_pool_pda(merchant)
        affiliate_pda == find_affiliate_pda(pool_pda.addr, affiliate_wallet)
        escrow_authority == find_escrow_authority_pda(pool_pda.addr)
        escrow_usdc ==
            find_associated_token_address(escrow_authority.addr, usdc_mint)
        affiliate_usdc ==
            find_associated_token_address(affiliate_wallet, usdc_mint)
    IN  encoder("process_sale",
                <<pool_pda, affiliate_pda, escrow_authority, escrow_usdc,
                  affiliate_usdc>>,
                OK(<<>>),
                process_sale_fields(sale_amount),
                process_sale_accounts(pool_pda.addr, affiliate_pda.addr,
                    affiliate_wallet, escrow_authority.addr, escrow_usdc.addr,
                    affiliate_usdc.addr, usdc_mint, authority))

\* the signer slot marked writable, as in the other encoders
remove_affiliate_accounts_signer_writable(pool_pda, affiliate_pda, affiliate_wallet, merchant) ==
    << AccountMeta(pool_pda, FALSE, FALSE),
       AccountMeta(affiliate_pda, FALSE, TRUE),
       AccountMeta(affiliate_wallet, FALSE, TRUE),
       AccountMeta(merchant, TRUE, TRUE) >>

remove_affiliate_accounts(pool_pda, affiliate_pda, affiliate_wallet, merchant) ==
    << AccountMeta(pool_pda, FALSE, FALSE),
       AccountMeta(affiliate_pda, FALSE, TRUE),
       AccountMeta(affiliate_wallet, FALSE, TRUE),
       AccountMeta(merchant, TRUE, FALSE) >>

remove_affiliate_ix(merchant, affiliate_wallet) ==
    LET pool_pda == find_pool_pda(merchant)
        affiliate_pda == find_affiliate_pda(pool_pda.addr, affiliate_wallet)
    IN  encoder("remove_affiliate", <<pool_pda, affiliate_pda>>, OK(<<>>),
                <<>>,
                remove_affiliate_accounts(pool_pda.addr, affiliate_pda.addr,
                                          affiliate_wallet, merchant))

deposit_escrow_fields(amount) == <<pack_Q(amount)>>

deposit_escrow_accounts(pool_pda, merchant, merchant_usdc, escrow_authority, escrow_usdc, usdc_mint) ==
    << AccountMeta(pool_pda, FALSE, FALSE),
       AccountMeta(merchant, TRUE, TRUE),
       AccountMeta(merchant_usdc, FALSE, TRUE),
       AccountMeta(escrow_authority, FALSE, FALSE),
       AccountMeta(escrow_usdc, FALSE, TRUE),
       AccountMeta(usdc_mint, FALSE, FALSE),
       AccountMeta(TOKEN_PROGRAM_ID, FALSE, FALSE) >>

deposit_escrow_ix(merchant, usdc_mint, amount) ==
    LET pool_pda == find_pool_pda(merchant)
        escrow_authority == find_escrow_authority_pda(pool_pda.addr)
        merchant_usdc == find_associated_token_address(merchant, usdc_mint)
        escrow_usdc ==
            find_associated_token_address(escrow_authority.addr, usdc_mint)
    IN  encoder("deposit_escrow",
                <<pool_pda, escrow_authority, merchant_usdc, escrow_usdc>>,
                OK(<<>>),
                deposit_escrow_fields(amount),
                deposit_escrow_accounts(pool_pda.addr, merchant,
                    merchant_usdc.addr, escrow_authority.addr,
                    escrow_usdc.addr, usdc_mint))

withdraw_escrow_fields(amount) == <<pack_Q(amount)>>

withdraw_escrow_accounts(pool_pda, merchant, merchant_usdc, escrow_authority, escrow_usdc, usdc_mint) ==
    << AccountMeta(pool_pda, FALSE, FALSE),
       AccountMeta(merchant, TRUE, TRUE),
       AccountMeta(merchant_usdc, FALSE, TRUE),
       AccountMeta(escrow_authority, FALSE, FALSE),
       AccountMeta(escrow_usdc, FALSE, TRUE),
       AccountMeta(usdc_mint, FALSE, FALSE),
       AccountMeta(TOKEN_PROGRAM_ID, FALSE, FALSE) >>

\* withdraw_escrow_ix left with the table key of the encoder it was copied from
withdraw_escrow_ix_deposit_key(merchant, usdc_mint, amount) ==
    deposit_escrow_ix(merchant, usdc_mint, amount)

withdraw_escrow_ix(merchant, usdc_mint, amount) ==
    LET pool_pda == find_pool_pda(merchant)
        escrow_authority == find_escrow_authority_pda(pool_pda.addr)
        merchant_usdc == find_associated_token_address(merchant, usdc_mint)
        escrow_usdc ==
            find_associated_token_address(escrow_authority.addr, usdc_mint)
    IN  encoder("withdraw_escrow",
                <<pool_pda, escrow_authority, merchant_usdc, escrow_usdc>>,
                OK(<<>>),
                withdraw_escrow_fields(amount),
                withdraw_escrow_accounts(pool_pda.addr, merchant,
                    merchant_usdc.addr, escrow_authority.addr,
                    escrow_usdc.addr, usdc_mint))

---------------------------------------------------------------------------
(* send_transaction: the only method that uses self.client.                *)

\* what the client does with the two awaited requests of one call:
\* get_latest_blockhash fails; client.send_transaction fails in transport;
\* the cluster rejects the transaction, which the client raises as well; or
\* both requests succeed
RpcOutcomes == {"blockhash_error", "send_error", "rejected", "ok"}

\* tx.sign([signer], ...): the payer is signer.pubkey(), so the message
\* requires the payer's signature and that of every is_signer account, and
\* the one keypair passed must cover them all
sign_ok(instruction, signer) ==
    \A i \in 1..Len(instruction.accounts) :
        instruction.accounts[i].is_signer => instruction.accounts[i].pubkey = signer

\* a submission that swallows what the client raises on the send
send_transaction_masking(instruction, signer, rpc) ==
    LET fetched == <<"get_latest_blockhash">>
        sent == fetched \o <<"send_transaction">>
    IN  IF rpc = "blockhash_error" THEN
            [status |-> "blockhash_error", requests |-> fetched, sig |-> ""]
        ELSE IF ~sign_ok(instruction, signer) THEN
            [status |-> "SignerError", requests |-> fetched, sig |-> ""]
        ELSE [status |-> "ok", requests |-> sent,
              sig |-> IF rpc = "ok" THEN "signature" ELSE "None"]

\* the call's outcome, the requests it made of the client, in order, and its
\* return value; there is no try/except and no loop, so the first statement
\* that raises ends the call
send_transaction(instruction, signer, rpc) ==
    LET fetched == <<"get_latest_blockhash">>
        sent == fetched \o <<"send_transaction">>
    IN  IF rpc = "blockhash_error" THEN
            [status |-> "blockhash_error", requests |-> fetched, sig |-> ""]
        ELSE IF ~sign_ok(instruction, signer) THEN
            [status |-> "SignerError", requests |-> fetched, sig |-> ""]
        ELSE IF rpc \in {"send_error", "rejected"} THEN
            [status |-> rpc, requests |-> sent, sig |-> ""]
        ELSE [status |-> "ok", requests |-> sent, sig |-> "signature"]

---------------------------------------------------------------------------
(* Inputs.                                                                 *)

\* commission_rate: -1, 0, 500, 10000, 10001, 2^16 - 1, 2^16
RateInputs ==
    {NegInt(<<1>>), Nat0(<<>>), Nat0(<<500>>), Nat0(<<10000>>),
     Nat0(<<10001>>), Nat0(<<65535>>), Nat0(<<0, 1>>)}

\* initial_deposit, sale_amount, amount: -1, 0, 10^6, 2^64 - 1, 2^64
AmountInputs ==
    {NegInt(<<1>>), Nat0(<<>>), Nat0(<<16960, 15>>),
     Nat0(<<65535, 65535, 65535, 65535>>), Nat0(<<0, 0, 0, 0, 1>>)}

\* "A", e-acute, the euro sign, an emoji, a lone high surrogate: one code
\* point of each UTF-8 length, and one that does not encode
CodePoints == {65, 233, 8364, 128512, 55296}
RefIds == UNION {[1..n -> CodePoints] : n \in 0..MaxRefLen}

\* addresses passed as `pool`: the pools of the wallets, and a wallet itself
PoolInputs == {find_pool_pda(k).addr : k \in Keys} \cup {Key(1)}
\* addresses passed as `owner`: wallets and escrow authorities
OwnerInputs ==
    Keys \cup {find_escrow_authority_pda(find_pool_pda(k).addr).addr : k \in Keys}

EncoderOps == {"initialize_pool_ix", "add_affiliate_ix", "process_sale_ix",
               "remove_affiliate_ix", "deposit_escrow_ix", "withdraw_escrow_ix"}
DerivationOps == {"find_pool_pda", "find_escrow_authority_pda",
                  "find_affiliate_pda", "find_associated_token_address"}

---------------------------------------------------------------------------
(* The IDL fix-up script (genpy/main.py): JSON documents.                  *)

\* longest seed path, in symbols (a symbol is a dot or a dot-free piece)
MaxPathLen == 3
\* longest account list built from the small account inputs
MaxAccounts == 2

\* A JSON value as json.loads returns it.  A string is the sequence of its
\* symbols; a dict is the sequence of its (key, value) pairs in insertion
\* order; a list is the sequence of its elements.
JStr(symbols) == [kind |-> "str", val |-> symbols, items |-> <<>>]
JBool(b) == [kind |-> "bool", val |-> <<IF b THEN "true" ELSE "false">>, items |-> <<>>]
JNum(digits) == [kind |-> "num", val |-> <<digits>>, items |-> <<>>]
JNull == [kind |-> "null", val |-> <<>>, items |-> <<>>]
JList(elements) == [kind |-> "list", val |-> <<>>, items |-> elements]
JDict(pairs) == [kind |-> "dict", val |-> <<>>, items |-> pairs]
Pair(key, value) == [k |-> key, v |-> value]

isinstance_str(x) == x.kind = "str"
isinstance_dict(x) == x.kind = "dict"

\* positions of `key` in a dict (none or one)
KeyIndex(d, key) == {i \in 1..Len(d.items) : d.items[i].k = key}
\* key in d
dict_has(d, key) == KeyIndex(d, key) # {}
\* d[key], for a key that is present
dict_item(d, key) == d.items[CHOOSE i \in KeyIndex(d, key) : TRUE].v
\* d[key] = value: in place when the key exists, appended otherwise
dict_set(d, key, value) ==
    IF dict_has(d, key)
    THEN JDict([i \in 1..Len(d.items) |->
                   IF d.items[i].k = key THEN Pair(key, value) ELSE d.items[i]])
    ELSE JDict(Append(d.items, Pair(key, value)))
\* d.setdefault(key, value)
dict_setdefault(d, key, value) ==
    IF dict_has(d, key) THEN d ELSE JDict(Append(d.items, Pair(key, value)))
\* d.pop(key, None)
dict_pop(d, key) == JDict(SelectSeq(d.items, LAMBDA p : p.k # key))
\* {k: v for k, v in d.items() if k in keys}
dict_filter(d, keys) == JDict(SelectSeq(d.items, LAMBDA p : p.k \in keys))

\* s.split('.'): the pieces between the dots, in order
RECURSIVE split(_)
split(s) ==
    LET dots == {i \in 1..Len(s) : s[i] = "."}
    IN  IF dots = {} THEN <<s>>
        ELSE LET i == CHOOSE j \in dots : \A m \in dots : j <= m
             IN  <<SubSeq(s, 1, i - 1)>> \o split(SubSeq(s, i + 1, Len(s)))

\* the result of a call that may raise
Return(x) == [ok |-> TRUE, value |-> x]
Raise == [ok |-> FALSE, value |-> JNull]

\* name in x, for the containers `in` accepts; raises on anything else
supports_in(x) == x.kind \in {"dict", "list", "str"}
contains(x, name) ==
    CASE x.kind = "dict" -> dict_has(x, name)
      [] x.kind = "list" -> \E i \in 1..Len(x.items) : x.items[i] = JStr(<<name>>)
      [] x.kind = "str" -> \E i \in 1..Len(x.val) : x.val[i] = name
      [] OTHER -> FALSE

\* for e in x: the values a loop over x visits; raises on anything else
iterable(x) == x.kind \in {"dict", "list", "str"}
elements(x) ==
    CASE x.kind = "list" -> x.items
      [] x.kind = "dict" -> [i \in 1..Len(x.items) |-> JStr(<<x.items[i].k>>)]
      [] x.kind = "str" -> [i \in 1..Len(x.val) |-> JStr(<<x.val[i]>>)]
      [] OTHER -> <<>>

---------------------------------------------------------------------------
(* genpy/main.py: fix_account and fix_idl.                                 *)

allowed_keys == {"name", "writable", "signer", "pda", "address"}

\* a fix_seed that leaves dotted paths as they are
fix_seed_keeps_path(seed) ==
    IF ~isinstance_dict(seed) THEN Raise
    ELSE LET flatten == /\ dict_has(seed, "kind")
                        /\ dict_item(seed, "kind") = JStr(<<"account">>)
                        /\ dict_has(seed, "path")
         IN  IF flatten /\ ~isinstance_str(dict_item(seed, "path")) THEN Raise
             ELSE Return(dict_pop(seed, "account"))

\* the body of `for seed in pda['seeds']`
fix_seed(seed) ==
    IF ~isinstance_dict(seed) THEN Raise
    ELSE LET flatten == /\ dict_has(seed, "kind")
                        /\ dict_item(seed, "kind") = JStr(<<"account">>)
                        /\ dict_has(seed, "path")
         IN  IF flatten /\ ~isinstance_str(dict_item(seed, "path")) THEN Raise
             ELSE LET path == dict_item(seed, "path").val
                      flat == IF flatten
                              THEN dict_set(seed, "path", JStr(split(path)[1]))
                              ELSE seed
                  IN  Return(dict_pop(flat, "account"))

\* `if 'seeds' in pda: for seed in pda['seeds']: ...`
fix_seeds(pda) ==
    IF ~supports_in(pda) THEN Raise
    ELSE IF ~contains(pda, "seeds") THEN Return(pda)
    ELSE IF ~isinstance_dict(pda) THEN Raise
    ELSE LET seeds == elements(dict_item(pda, "seeds"))
         IN  IF ~iterable(dict_item(pda, "seeds")) THEN Raise
             ELSE IF \E i \in 1..Len(seeds) : ~fix_seed(seeds[i]).ok THEN Raise
             ELSE IF dict_item(pda, "seeds").kind = "list"
             THEN Return(dict_set(pda, "seeds",
                                  JList([i \in 1..Len(seeds) |-> fix_seed(seeds[i]).value])))
             ELSE Return(pda)

\* `if 'program' in pda: ...`
fix_program(pda) ==
    IF ~contains(pda, "program") THEN Return(pda)
    ELSE IF ~isinstance_dict(pda) THEN Raise
    ELSE LET prog == dict_item(pda, "program")
         IN  IF isinstance_dict(prog) /\ dict_has(prog, "kind") /\ dict_has(prog, "value")
             THEN Return(pda)
             ELSE Return(dict_pop(pda, "program"))

\* a fix_account that leaves out the two setdefault calls
fix_account_no_defaults(account) ==
    IF isinstance_str(account) THEN Return(account)
    ELSE IF ~isinstance_dict(account) THEN Raise
    ELSE LET kept == dict_filter(account, allowed_keys)
         IN  IF ~dict_has(kept, "pda") THEN Return(kept)
             ELSE LET seeded == fix_seeds(dict_item(kept, "pda"))
                      fixed == IF seeded.ok THEN fix_program(seeded.value) ELSE Raise
                  IN  IF ~fixed.ok THEN Raise
                      ELSE Return(dict_set(kept, "pda", fixed.value))

fix_account(account) ==
    IF isinstance_str(account) THEN Return(account)
    ELSE IF ~isinstance_dict(account) THEN Raise
    ELSE LET kept == dict_filter(account, allowed_keys)
             writable == dict_setdefault(kept, "writable", JBool(FALSE))
             signer == dict_setdefault(writable, "signer", JBool(FALSE))
         IN  IF ~dict_has(signer, "pda") THEN Return(signer)
             ELSE LET seeded == fix_seeds(dict_item(signer, "pda"))
                      fixed == IF seeded.ok THEN fix_program(seeded.value) ELSE Raise
                  IN  IF ~fixed.ok THEN Raise
                      ELSE Return(dict_set(signer, "pda", fixed.value))

\* the body of `for instr in idl['instructions']`
fix_instruction(instr) ==
    IF ~supports_in(instr) THEN Raise
    ELSE IF ~contains(instr, "accounts") THEN Return(instr)
    ELSE IF ~isinstance_dict(instr) THEN Raise
    ELSE LET accounts == elements(dict_item(instr, "accounts"))
         IN  IF ~iterable(dict_item(instr, "accounts")) THEN Raise
             ELSE IF \E i \in 1..Len(accounts) : ~fix_account(accounts[i]).ok THEN Raise
             ELSE Return(dict_set(instr, "accounts",
                      JList([i \in 1..Len(accounts) |-> fix_account(accounts[i]).value])))

fix_idl(idl) ==
    IF ~supports_in(idl) THEN Raise
    ELSE IF ~contains(idl, "instructions") THEN Return(idl)
    ELSE IF ~isinstance_dict(idl) THEN Raise
    ELSE LET instructions == elements(dict_item(idl, "instructions"))
         IN  IF ~iterable(dict_item(idl, "instructions")) THEN Raise
             ELSE IF \E i \in 1..Len(instructions) : ~fix_instruction(instructions[i]).ok
             THEN Raise
             ELSE IF dict_item(idl, "instructions").kind = "list"
             THEN Return(dict_set(idl, "instructions",
                      JList([i \in 1..Len(instructions) |->
                                fix_instruction(instructions[i]).value])))
             ELSE Return(idl)

---------------------------------------------------------------------------
(* genpy/main.py: the documents the script may find at idl_path.           *)

Symbols == {"a", "."}
Paths == UNION {[1..n -> Symbols] : n \in 1..MaxPathLen}

KindAccount == <<Pair("kind", JStr(<<"account">>))>>
KindConst == <<Pair("kind", JStr(<<"const">>))>>
PathOf(path) == <<Pair("path", JStr(path))>>
NestedAccount == <<Pair("account", JStr(<<"Pool">>))>>

\* seed descriptions: every path under both kinds; seeds without a path;
\* seeds with a nested 'account' field; a seed without a kind; a seed whose
\* path is not a string; a seed that is not a mapping
SeedInputs ==
    {JDict(kind \o PathOf(path)) : kind \in {KindAccount, KindConst}, path \in Paths}
    \cup {JDict(kind \o nested) : kind \in {KindAccount, KindConst},
                                  nested \in {<<>>, NestedAccount}}
    \cup {JDict(kind \o PathOf(<<"a", ".", "a">>) \o NestedAccount) :
              kind \in {KindAccount, KindConst}}
    \cup {JDict(PathOf(<<"a", ".", "a">>)),
          JDict(KindAccount \o <<Pair("path", JNull)>>),
          JStr(<<"a">>)}

ProgramValid ==
    JDict(<<Pair("kind", JStr(<<"const">>)), Pair("value", JList(<<JNum("6")>>))>>)
\* program overrides: kind and value; kind and path; value alone; a string
ProgramInputs ==
    {<<>>,
     <<Pair("program", ProgramValid)>>,
     <<Pair("program", JDict(KindAccount \o PathOf(<<"a", ".", "a">>)))>>,
     <<Pair("program", JDict(<<Pair("value", JList(<<JNum("6")>>))>>))>>,
     <<Pair("program", JStr(<<"a">>))>>}

TwoSeeds ==
    <<JDict(KindAccount \o PathOf(<<"a", ".", "a">>) \o NestedAccount),
      JDict(KindConst \o PathOf(<<"a", ".", "a">>))>>

\* derivation descriptions: one seed each; two seeds or none under every
\* program override; a derivation that is not a mapping
PdaInputs ==
    {JDict(<<Pair("seeds", JList(<<seed>>))>>) : seed \in SeedInputs}
    \cup {JDict(<<Pair("seeds", JList(TwoSeeds))>> \o program) : program \in ProgramInputs}
    \cup {JDict(program) : program \in ProgramInputs}
    \cup {JDict(<<Pair("seeds", JNull)>>), JStr(<<"a">>), JBool(TRUE)}

Name == <<Pair("name", JStr(<<"pool">>))>>
FlagInputs == {<<>>, <<JBool(TRUE)>>, <<JBool(FALSE)>>}
FlagPair(key, flag) == IF flag = <<>> THEN <<>> ELSE <<Pair(key, flag[1])>>

\* accounts carrying every combination of writable and signer (absent, true,
\* false) next to a key the consumer does not know
FlagAccounts ==
    {JDict(Name \o <<Pair("docs", JList(<<>>))>>
                \o FlagPair("signer", signer) \o FlagPair("writable", writable)) :
        writable \in FlagInputs, signer \in FlagInputs}

\* accounts carrying every derivation description
PdaAccounts ==
    {JDict(Name \o <<Pair("writable", JBool(TRUE))>> \o <<Pair("pda", pda)>>) :
        pda \in PdaInputs}

\* a string-form account, and an entry that is neither string nor mapping
OtherAccounts == {JStr(<<"pool">>), JNum("6")}

AccountInputs == FlagAccounts \cup PdaAccounts \cup OtherAccounts

\* the accounts longer lists are built from
SmallAccounts ==
    {JStr(<<"pool">>),
     JDict(Name),
     JDict(<<Pair("isMut", JBool(TRUE)), Pair("signer", JBool(TRUE))>> \o Name),
     JDict(Name \o <<Pair("pda", JDict(<<Pair("seeds", JList(TwoSeeds)),
                                         Pair("program", JStr(<<"a">>))>>))>>)}

AccountLists ==
    {<<account>> : account \in AccountInputs}
    \cup UNION {[1..n -> SmallAccounts] : n \in 0..MaxAccounts}

Instr(accounts) ==
    JDict(<<Pair("name", JStr(<<"initialize_pool">>)),
            Pair("accounts", JList(accounts)),
            Pair("args", JList(<<>>))>>)

Idl(instructions) ==
    JDict(<<Pair("address", JStr(<<"program">>)),
            Pair("instructions", JList(instructions)),
            Pair("types", JList(<<>>))>>)

\* documents: one instruction over every account list; two instructions; an
\* instruction without accounts; a document without instructions; documents
\* that are not what the script expects
IdlInputs ==
    {Idl(<<Instr(accounts)>>) : accounts \in AccountLists}
    \cup {Idl(<<Instr(<<a>>), Instr(<<b>>)>>) : a, b \in SmallAccounts}
    \cup {Idl(<<JDict(Name)>>),
          JDict(<<Pair("address", JStr(<<"program">>))>>),
          JDict(<<Pair("instructions", JNull)>>),
          JList(<<>>),
          JNum("6")}

---------------------------------------------------------------------------
(* State.                                                                  *)

\* no run of the fix-up script
NoRun ==
    [pc |-> "off", source |-> [state |-> "missing", doc |-> JNull],
     idl |-> JNull, fixed |-> JNull, contract_json |-> "absent", exc |-> "",
     propagated |-> FALSE, log |-> <<>>]

NoCall ==
    [op |-> "none", args |-> <<>>, status |-> "none", program_id |-> <<>>,
     data |-> <<>>, accounts |-> <<>>, appended |-> 0, addr |-> <<>>,
     bump |-> 0, rpc |-> 0, requests |-> <<>>, sig |-> ""]

\* the record of a completed encoder call
EncoderCall(op, args, out) ==
    [NoCall EXCEPT !.op = op, !.args = args, !.status = out.status,
                   !.program_id = out.program_id, !.data = out.data,
                   !.accounts = out.accounts, !.appended = out.appended]

\* the record of a completed derivation call
DerivationCall(op, args, res) ==
    [NoCall EXCEPT !.op = op, !.args = args,
                   !.status = IF res.ok THEN "ok" ELSE "exhausted",
                   !.addr = res.addr, !.bump = res.bump]

Init ==
    /\ PROGRAM_ID = InitProgramId
    /\ TOKEN_PROGRAM_ID = InitTokenProgramId
    /\ ASSOCIATED_TOKEN_PROGRAM_ID = InitAssociatedTokenProgramId
    /\ DISCRIMINATORS = InitDiscriminators
    /\ last = NoCall
    /\ remembered = NoCall
    /\ between = FALSE
    /\ callers = <<>>
    /\ genpy = NoRun

\* the caller holds no result and may call a method
Idle == last.op = "none"

\* a derivation call completes; the observer may keep it for later comparison
Derived(call, keep) ==
    /\ last' = call
    /\ remembered' = IF keep THEN call ELSE remembered
    /\ between' = IF keep THEN FALSE ELSE (remembered.op # "none")
    /\ UNCHANGED <<classVars, callers, genpy>>

\* an encoder call completes
Encoded(op, args, out) ==
    /\ last' = EncoderCall(op, args, out)
    /\ DISCRIMINATORS' = out.table
    /\ between' = (remembered.op # "none")
    /\ UNCHANGED <<PROGRAM_ID, TOKEN_PROGRAM_ID, ASSOCIATED_TOKEN_PROGRAM_ID,
                   remembered, callers, genpy>>

FindPoolPda ==
    /\ Idle
    /\ \E merchant \in Keys, keep \in BOOLEAN :
           Derived(DerivationCall("find_pool_pda", <<merchant>>,
                                  find_pool_pda(merchant)), keep)

FindEscrowAuthorityPda ==
    /\ Idle
    /\ \E pool \in PoolInputs, keep \in BOOLEAN :
           Derived(DerivationCall("find_escrow_authority_pda", <<pool>>,
                                  find_escrow_authority_pda(pool)), keep)

FindAffiliatePda ==
    /\ Idle
    /\ \E pool \in PoolInputs, wallet \in Keys, keep \in BOOLEAN :
           Derived(DerivationCall("find_affiliate_pda", <<pool, wallet>>,
                                  find_affiliate_pda(pool, wallet)), keep)

\* the derivation under the associated-token program done by rebinding the
\* class constant the other derivations read, and not restoring it
FindAssociatedTokenAddress_rebinding ==
    /\ Idle
    /\ \E owner \in OwnerInputs, mint \in Mints, keep \in BOOLEAN :
           LET call == DerivationCall("find_associated_token_address",
                                      <<owner, mint>>,
                                      find_associated_token_address(owner, mint))
           IN  /\ last' = call
               /\ remembered' = IF keep THEN call ELSE remembered
               /\ between' = IF keep THEN FALSE ELSE (remembered.op # "none")
               /\ PROGRAM_ID' = ASSOCIATED_TOKEN_PROGRAM_ID
               /\ UNCHANGED <<TOKEN_PROGRAM_ID, ASSOCIATED_TOKEN_PROGRAM_ID,
                              DISCRIMINATORS, callers, genpy>>

FindAssociatedTokenAddress ==
    /\ Idle
    /\ \E owner \in OwnerInputs, mint \in Mints, keep \in BOOLEAN :
           Derived(DerivationCall("find_associated_token_address",
                                  <<owner, mint>>,
                                  find_associated_token_address(owner, mint)),
                   keep)

InitializePoolIx ==
    /\ Idle
    /\ \E merchant \in Keys, usdc_mint \in Mints,
          commission_rate \in RateInputs, initial_deposit \in AmountInputs :
           Encoded("initialize_pool_ix",
                   <<merchant, usdc_mint, commission_rate, initial_deposit>>,
                   initialize_pool_ix(merchant, usdc_mint, commission_rate,
                                      initial_deposit))

AddAffiliateIx ==
    /\ Idle
    /\ \E merchant \in Keys, affiliate_wallet \in Keys, ref_id \in RefIds :
           Encoded("add_affiliate_ix", <<merchant, affiliate_wallet, ref_id>>,
                   add_affiliate_ix(merchant, affiliate_wallet, ref_id))

ProcessSaleIx ==
    /\ Idle
    /\ \E authority \in Keys, merchant \in Keys, affiliate_wallet \in Keys,
          usdc_mint \in Mints, sale_amount \in AmountInputs :
           Encoded("process_sale_ix",
                   <<authority, merchant, affiliate_wallet, usdc_mint, sale_amount>>,
                   process_sale_ix(authority, merchant, affiliate_wallet,
                                   usdc_mint, sale_amount))

RemoveAffiliateIx ==
    /\ Idle
    /\ \E merchant \in Keys, affiliate_wallet \in Keys :
           Encoded("remove_affiliate_ix", <<merchant, affiliate_wallet>>,
                   remove_affiliate_ix(merchant, affiliate_wallet))

DepositEscrowIx ==
    /\ Idle
    /\ \E merchant \in Keys, usdc_mint \in Mints, amount \in AmountInputs :
           Encoded("deposit_escrow_ix", <<merchant, usdc_mint, amount>>,
                   deposit_escrow_ix(merchant, usdc_mint, amount))

WithdrawEscrowIx ==
    /\ Idle
    /\ \E merchant \in Keys, usdc_mint \in Mints, amount \in AmountInputs :
           Encoded("withdraw_escrow_ix", <<merchant, usdc_mint, amount>>,
                   withdraw_escrow_ix(merchant, usdc_mint, amount))

\* the program refuses to initialise a pool whose commission rate exceeds
\* 10000, so no submission of such an instruction is accepted
RATE_LIMIT == 10000
InvalidCommissionRate(call) ==
    /\ call.op = "initialize_pool_ix"
    /\ call.data[9] + 256 * call.data[10] > RATE_LIMIT

\* the instruction just built is submitted
SendTransaction ==
    /\ last.op \in EncoderOps
    /\ last.status = "ok"
    /\ \E signer \in Keys, rpc \in RpcOutcomes :
        /\ rpc = "ok" => ~InvalidCommissionRate(last)
        /\ LET out == send_transaction(last, signer, rpc)
           IN  last' = [NoCall EXCEPT !.op = "send_transaction",
                                      !.args = <<last.op, signer, rpc, last.args>>,
                                      !.status = out.status,
                                      !.rpc = Len(out.requests),
                                      !.requests = out.requests,
                                      !.sig = out.sig]
    /\ between' = (remembered.op # "none")
    /\ UNCHANGED <<classVars, remembered, callers, genpy>>

\* the caller drops the result of its last call and is free to call again
Discard ==
    /\ last.op # "none"
    /\ last' = NoCall
    /\ UNCHANGED <<classVars, remembered, between, callers, genpy>>

Next ==
    \/ FindPoolPda
    \/ FindEscrowAuthorityPda
    \/ FindAffiliatePda
    \/ FindAssociatedTokenAddress
    \/ InitializePoolIx
    \/ AddAffiliateIx
    \/ ProcessSaleIx
    \/ RemoveAffiliateIx
    \/ DepositEscrowIx
    \/ WithdrawEscrowIx
    \/ SendTransaction
    \/ Discard

Spec == Init /\ [][Next]_vars

---------------------------------------------------------------------------
(* Concurrent callers: the same methods, one statement group at a time.    *)

\* number of callers running at once
NumCallers == 2
Callers == 1..NumCallers

\* the calls the concurrent callers make
ConcCalls ==
    { <<"initialize_pool_ix",
        <<Key(1), MkAddr(200, 0), Nat0(<<500>>), Nat0(<<16960, 15>>)>> >>,
      <<"initialize_pool_ix",
        <<Key(1), MkAddr(200, 0), Nat0(<<500>>), Nat0(<<0, 0, 0, 0, 1>>)>> >>,
      <<"add_affiliate_ix", <<Key(1), Key(2), <<233>> >> >>,
      <<"process_sale_ix",
        <<Key(2), Key(1), Key(2), MkAddr(200, 0), Nat0(<<16960, 15>>)>> >>,
      <<"remove_affiliate_ix", <<Key(1), Key(2)>> >>,
      <<"deposit_escrow_ix", <<Key(1), MkAddr(200, 0), Nat0(<<>>)>> >>,
      <<"withdraw_escrow_ix", <<Key(1), MkAddr(200, 0), Nat0(<<>>)>> >>,
      <<"find_pool_pda", <<Key(1)>> >>,
      <<"find_escrow_authority_pda", <<Key(2)>> >>,
      <<"find_affiliate_pda", <<Key(1), Key(2)>> >>,
      <<"find_associated_token_address", <<Key(1), MkAddr(200, 0)>> >> }

\* DISCRIMINATORS[...] key used by each encoder
TableKey(op) ==
    CASE op = "initialize_pool_ix" -> "initialize_pool"
      [] op = "add_affiliate_ix" -> "add_affiliate"
      [] op = "process_sale_ix" -> "process_sale"
      [] op = "remove_affiliate_ix" -> "remove_affiliate"
      [] op = "deposit_escrow_ix" -> "deposit_escrow"
      [] op = "withdraw_escrow_ix" -> "withdraw_escrow"

\* a derivation method called with its arguments
Derive(op, a) ==
    CASE op = "find_pool_pda" -> find_pool_pda(a[1])
      [] op = "find_escrow_authority_pda" -> find_escrow_authority_pda(a[1])
      [] op = "find_affiliate_pda" -> find_affiliate_pda(a[1], a[2])
      [] op = "find_associated_token_address" ->
            find_associated_token_address(a[1], a[2])

\* the first statements of an encoder: its derivations, in order
Derivations(op, a) ==
    LET pool_pda ==
            find_pool_pda(IF op = "process_sale_ix" THEN a[2] ELSE a[1])
        escrow_authority == find_escrow_authority_pda(pool_pda.addr)
    IN  CASE op \in {"initialize_pool_ix", "deposit_escrow_ix",
                     "withdraw_escrow_ix"} ->
                << pool_pda, escrow_authority,
                   find_associated_token_address(a[1], a[2]),
                   find_associated_token_address(escrow_authority.addr, a[2]) >>
          [] op \in {"add_affiliate_ix", "remove_affiliate_ix"} ->
                << pool_pda, find_affiliate_pda(pool_pda.addr, a[2]) >>
          [] op = "process_sale_ix" ->
                << pool_pda, find_affiliate_pda(pool_pda.addr, a[3]),
                   escrow_authority,
                   find_associated_token_address(escrow_authority.addr, a[4]),
                   find_associated_token_address(a[3], a[4]) >>

\* ref_id.encode("utf-8") in add_affiliate_ix; nothing to encode elsewhere
EncodedRefId(op, a) ==
    IF op = "add_affiliate_ix" THEN str_encode(a[3]) ELSE OK(<<>>)

\* the right-hand sides of the `data +=` statements of an encoder
Fields(op, a) ==
    CASE op = "initialize_pool_ix" -> initialize_pool_fields(a[3], a[4])
      [] op = "add_affiliate_ix" -> add_affiliate_fields(a[3], str_encode(a[3]).bytes)
      [] op = "process_sale_ix" -> process_sale_fields(a[5])
      [] op = "remove_affiliate_ix" -> <<>>
      [] op = "deposit_escrow_ix" -> deposit_escrow_fields(a[3])
      [] op = "withdraw_escrow_ix" -> withdraw_escrow_fields(a[3])

\* the `accounts = [...]` statement, from the addresses d derived earlier
Accounts(op, a, d) ==
    CASE op = "initialize_pool_ix" ->
            initialize_pool_accounts(d[1].addr, a[1], d[3].addr, d[2].addr,
                                     d[4].addr, a[2])
      [] op = "add_affiliate_ix" ->
            add_affiliate_accounts(d[1].addr, d[2].addr, a[2], a[1])
      [] op = "process_sale_ix" ->
            process_sale_accounts(d[1].addr, d[2].addr, a[3], d[3].addr,
                                  d[4].addr, d[5].addr, a[4], a[1])
      [] op = "remove_affiliate_ix" ->
            remove_affiliate_accounts(d[1].addr, d[2].addr, a[2], a[1])
      [] op = "deposit_escrow_ix" ->
            deposit_escrow_accounts(d[1].addr, a[1], d[3].addr, d[2].addr,
                                    d[4].addr, a[2])
      [] op = "withdraw_escrow_ix" ->
            withdraw_escrow_accounts(d[1].addr, a[1], d[3].addr, d[2].addr,
                                     d[4].addr, a[2])

\* a caller between calls
IdleCaller ==
    [pc |-> "idle", op |-> "none", args |-> <<>>, derived |-> <<>>,
     data |-> <<>>, appended |-> 0, rpc |-> 0, out |-> NoCall]

InitConc ==
    /\ PROGRAM_ID = InitProgramId
    /\ TOKEN_PROGRAM_ID = InitTokenProgramId
    /\ ASSOCIATED_TOKEN_PROGRAM_ID = InitAssociatedTokenProgramId
    /\ DISCRIMINATORS = InitDiscriminators
    /\ last = NoCall
    /\ remembered = NoCall
    /\ between = FALSE
    /\ callers = [c \in Callers |-> IdleCaller]
    /\ genpy = NoRun

\* the call of caller c ends with `out`
Finish(c, out) ==
    callers' = [callers EXCEPT ![c].pc = "done", ![c].out = out]

\* caller c calls a derivation method, which runs to its return
CallDerivation(c) ==
    /\ callers[c].pc = "idle"
    /\ \E call \in ConcCalls :
        /\ call[1] \in DerivationOps
        /\ callers' = [callers EXCEPT
               ![c] = [IdleCaller EXCEPT
                   !.pc = "done", !.op = call[1], !.args = call[2],
                   !.out = DerivationCall(call[1], call[2],
                                          Derive(call[1], call[2]))]]
    /\ UNCHANGED <<classVars, last, remembered, between, genpy>>

\* caller c enters an encoder and runs its derivations (and ref_id.encode)
BeginEncoder(c) ==
    /\ callers[c].pc = "idle"
    /\ \E call \in ConcCalls :
        /\ call[1] \in EncoderOps
        /\ LET d == Derivations(call[1], call[2])
               begun == [IdleCaller EXCEPT !.op = call[1], !.args = call[2]]
           IN  callers' = [callers EXCEPT ![c] =
                   IF \E i \in 1..Len(d) : ~d[i].ok THEN
                       [begun EXCEPT !.pc = "done",
                           !.out = EncoderCall(call[1], call[2],
                                       Raised("exhausted", 0, DISCRIMINATORS))]
                   ELSE IF ~EncodedRefId(call[1], call[2]).ok THEN
                       [begun EXCEPT !.pc = "done",
                           !.out = EncoderCall(call[1], call[2],
                                       Raised("UnicodeEncodeError", 0,
                                              DISCRIMINATORS))]
                   ELSE [begun EXCEPT !.pc = "load", !.derived = d]]
    /\ UNCHANGED <<classVars, last, remembered, between, genpy>>

\* data = self.DISCRIMINATORS[...]
LoadDiscriminator(c) ==
    /\ callers[c].pc = "load"
    /\ callers' = [callers EXCEPT
           ![c].pc = "append",
           ![c].data = DISCRIMINATORS[TableKey(callers[c].op)]]
    /\ UNCHANGED <<classVars, last, remembered, between, genpy>>

\* the next `data += ...` statement of caller c, which may raise
AppendField(c) ==
    LET me == callers[c]
        fields == Fields(me.op, me.args)
    IN  /\ me.pc = "append"
        /\ me.appended < Len(fields)
        /\ LET field == fields[me.appended + 1]
           IN  IF field.ok THEN
                   /\ callers' = [callers EXCEPT
                          ![c].data = me.data \o field.bytes,
                          ![c].appended = me.appended + 1]
                   /\ DISCRIMINATORS' =
                          iadd_table(DISCRIMINATORS, TableKey(me.op), field.bytes)
               ELSE
                   /\ Finish(c, EncoderCall(me.op, me.args,
                          Raised("struct.error", me.appended, DISCRIMINATORS)))
                   /\ UNCHANGED DISCRIMINATORS
        /\ UNCHANGED <<PROGRAM_ID, TOKEN_PROGRAM_ID,
                       ASSOCIATED_TOKEN_PROGRAM_ID, last, remembered, between, genpy>>

\* accounts = [...]; return Instruction(self.PROGRAM_ID, data, accounts)
BuildInstruction(c) ==
    LET me == callers[c]
    IN  /\ me.pc = "append"
        /\ me.appended = Len(Fields(me.op, me.args))
        /\ Finish(c, EncoderCall(me.op, me.args,
               Instruction(me.data, Accounts(me.op, me.args, me.derived),
                           me.appended, DISCRIMINATORS)))
        /\ UNCHANGED <<classVars, last, remembered, between, genpy>>

\* caller c drops the result and is free to call again
DiscardResult(c) ==
    /\ callers[c].pc = "done"
    /\ callers' = [callers EXCEPT ![c] = IdleCaller]
    /\ UNCHANGED <<classVars, last, remembered, between, genpy>>

NextConc ==
    \E c \in Callers :
        \/ CallDerivation(c)
        \/ BeginEncoder(c)
        \/ LoadDiscriminator(c)
        \/ AppendField(c)
        \/ BuildInstruction(c)
        \/ DiscardResult(c)

SpecConc == InitConc /\ [][NextConc]_vars

---------------------------------------------------------------------------
(* genpy/main.py: one run of main().                                       *)

\* what idl_path holds: nothing, text that is not JSON, or a document
Sources ==
    {[state |-> "missing", doc |-> JNull], [state |-> "unparsable", doc |-> JNull]}
    \cup {[state |-> "json", doc |-> doc] : doc \in IdlInputs}

\* output_path before the run: no file, or one left by an earlier run
ContractJsonBefore == {"absent", "stale"}

InitGen ==
    /\ PROGRAM_ID = InitProgramId
    /\ TOKEN_PROGRAM_ID = InitTokenProgramId
    /\ ASSOCIATED_TOKEN_PROGRAM_ID = InitAssociatedTokenProgramId
    /\ DISCRIMINATORS = InitDiscriminators
    /\ last = NoCall
    /\ remembered = NoCall
    /\ between = FALSE
    /\ callers = <<>>
    /\ \E source \in Sources, before \in ContractJsonBefore :
           genpy = [NoRun EXCEPT !.pc = "load", !.source = source,
                                 !.contract_json = before]

\* the classes the `except Exception` clause catches, among those the
\* statements of the try block raise
ExceptionSubclasses ==
    {"FileNotFoundError", "JSONDecodeError", "AttributeError", "TypeError",
     "OSError", "CalledProcessError"}

\* a handler list without the `except Exception` clause
handler_client_gen_only(exc) ==
    IF exc = "CalledProcessError" THEN "except_client_gen" ELSE "finally"

\* the except clause that handles an exception raised in the try block, in
\* the order the clauses are written
handler(exc) ==
    IF exc = "CalledProcessError" THEN "except_client_gen"
    ELSE IF exc \in ExceptionSubclasses THEN "except"
    ELSE "finally"

\* a statement of the try block raises exc
Raised_in_try(exc) ==
    genpy' = [genpy EXCEPT !.pc = handler(exc), !.exc = exc,
                           !.propagated = (handler(exc) = "finally")]

\* idl = json.loads(idl_path.read_text())
LoadIdl ==
    /\ genpy.pc = "load"
    /\ CASE genpy.source.state = "missing" -> Raised_in_try("FileNotFoundError")
         [] genpy.source.state = "unparsable" -> Raised_in_try("JSONDecodeError")
         [] OTHER -> genpy' = [genpy EXCEPT !.pc = "fix", !.idl = genpy.source.doc]
    /\ UNCHANGED <<classVars, last, remembered, between, callers>>

\* fixed_idl = fix_idl(idl)
FixIdl ==
    /\ genpy.pc = "fix"
    /\ LET out == fix_idl(genpy.idl)
       IN  IF out.ok
           THEN genpy' = [genpy EXCEPT !.pc = "write", !.fixed = out.value]
           ELSE Raised_in_try("TypeError")
    /\ UNCHANGED <<classVars, last, remembered, between, callers>>

\* output_path.write_text(json.dumps(fixed_idl, indent=2)): the file is
\* written; or it cannot be opened; or it is created and the write fails
SaveFixedIdl ==
    /\ genpy.pc = "write"
    /\ \/ genpy' = [genpy EXCEPT !.pc = "client_gen", !.contract_json = "fixed",
                                 !.log = Append(@, "saved")]
       \/ Raised_in_try("OSError")
       \/ genpy' = [genpy EXCEPT !.pc = handler("OSError"), !.exc = "OSError",
                                 !.propagated = (handler("OSError") = "finally"),
                                 !.contract_json = "partial"]
    /\ UNCHANGED <<classVars, last, remembered, between, callers>>

\* subprocess.run([...], check=True): the generator exits with 0, or with
\* another status, or cannot be started
GenerateClient ==
    /\ genpy.pc = "client_gen"
    /\ \/ genpy' = [genpy EXCEPT !.pc = "finally",
                                 !.log = @ \o <<"client_gen", "generated">>]
       \/ \E exc \in {"CalledProcessError", "OSError"} :
            genpy' = [genpy EXCEPT !.pc = handler(exc), !.exc = exc,
                                   !.propagated = (handler(exc) = "finally"),
                                   !.log = Append(@, "client_gen")]
    /\ UNCHANGED <<classVars, last, remembered, between, callers>>

\* except subprocess.CalledProcessError as e: print(...)
ExceptCalledProcessError ==
    /\ genpy.pc = "except_client_gen"
    /\ genpy' = [genpy EXCEPT !.pc = "finally", !.log = Append(@, "client_gen_error")]
    /\ UNCHANGED <<classVars, last, remembered, between, callers>>

\* except Exception as e: print(...)
ExceptException ==
    /\ genpy.pc = "except"
    /\ genpy' = [genpy EXCEPT !.pc = "finally", !.log = Append(@, "error")]
    /\ UNCHANGED <<classVars, last, remembered, between, callers>>

\* finally: output_path.unlink(missing_ok=True), which removes the file or
\* raises; what it raises is caught and reported
RemoveContractJson ==
    /\ genpy.pc = "finally"
    /\ \/ genpy' = [genpy EXCEPT !.pc = "done", !.contract_json = "absent",
                                 !.log = Append(@, "removed")]
       \/ genpy' = [genpy EXCEPT !.pc = "done", !.log = Append(@, "could_not_remove")]
    /\ UNCHANGED <<classVars, last, remembered, between, callers>>

NextGen ==
    \/ LoadIdl
    \/ FixIdl
    \/ SaveFixedIdl
    \/ GenerateClient
    \/ ExceptCalledProcessError
    \/ ExceptException
    \/ RemoveContractJson

SpecGen == InitGen /\ [][NextGen]_vars

\* The control flow of main() depends on the document only through whether
\* fix_idl returns or raises, so the runs whose termination is checked draw
\* their documents from the single-account ones without a pda.
RunSources ==
    {[state |-> "missing", doc |-> JNull], [state |-> "unparsable", doc |-> JNull]}
    \cup {[state |-> "json", doc |-> Idl(<<Instr(<<account>>)>>)] :
             account \in FlagAccounts \cup OtherAccounts}

InitRun ==
    /\ PROGRAM_ID = InitProgramId
    /\ TOKEN_PROGRAM_ID = InitTokenProgramId
    /\ ASSOCIATED_TOKEN_PROGRAM_ID = InitAssociatedTokenProgramId
    /\ DISCRIMINATORS = InitDiscriminators
    /\ last = NoCall
    /\ remembered = NoCall
    /\ between = FALSE
    /\ callers = <<>>
    /\ \E source \in RunSources, before \in ContractJsonBefore :
           genpy = [NoRun EXCEPT !.pc = "load", !.source = source,
                                 !.contract_json = before]

\* main() is a straight-line script: a statement that can run does run,
\* and every call it makes returns or raises
SpecGenFair == InitRun /\ [][NextGen]_vars /\ WF_vars(NextGen)

---------------------------------------------------------------------------
(* Properties.                                                             *)

IsEncoderCall(c) == c.op \in EncoderOps
Returned(c) == c.status = "ok"

F == FALSE
T == TRUE

\* the (is_signer, is_writable) pairs of an account list, slot by slot
Flags(accounts) ==
    [i \in 1..Len(accounts) |-> <<accounts[i].is_signer, accounts[i].is_writable>>]

\* the table of section 4.2 of the specification
TableFlags(op) ==
    CASE op = "initialize_pool_ix" ->
            << <<F, T>>, <<T, T>>, <<F, T>>, <<F, F>>, <<F, T>>, <<F, F>>,
               <<F, F>>, <<F, F>>, <<F, F>> >>
      [] op = "add_affiliate_ix" ->
            << <<F, F>>, <<F, T>>, <<F, F>>, <<T, T>>, <<F, F>> >>
      [] op = "process_sale_ix" ->
            << <<F, T>>, <<F, T>>, <<F, T>>, <<F, F>>, <<F, T>>, <<F, T>>,
               <<F, F>>, <<T, T>>, <<F, F>>, <<F, F>>, <<F, F>> >>
      [] op = "remove_affiliate_ix" ->
            << <<F, F>>, <<F, T>>, <<F, T>>, <<T, F>> >>
      [] op = "deposit_escrow_ix" ->
            << <<F, F>>, <<T, T>>, <<F, T>>, <<F, F>>, <<F, T>>, <<F, F>>,
               <<F, F>> >>
      [] op = "withdraw_escrow_ix" ->
            << <<F, F>>, <<T, T>>, <<F, T>>, <<F, F>>, <<F, T>>, <<F, F>>,
               <<F, F>> >>

TableLength(op) ==
    CASE op = "initialize_pool_ix" -> 9
      [] op = "add_affiliate_ix" -> 5
      [] op = "process_sale_ix" -> 11
      [] op = "remove_affiliate_ix" -> 4
      [] op = "deposit_escrow_ix" -> 7
      [] op = "withdraw_escrow_ix" -> 7

SignerSlots(accounts) == {i \in 1..Len(accounts) : accounts[i].is_signer}

\* C1: the account list of every instruction an encoder returns has the
\* length (9, 5, 11, 4, 7, 7) and, slot by slot, the (is-signer,
\* is-writable) flags of the specification's table, whatever the inputs;
\* exactly one slot is a signer, it holds the first argument's address
\* (merchant, or authority for process-sale), and it is writable except in
\* remove-affiliate.
C1_AccountFlagsMatchTable ==
    (IsEncoderCall(last) /\ Returned(last)) =>
        /\ Len(last.accounts) = TableLength(last.op)
        /\ Flags(last.accounts) = TableFlags(last.op)
        /\ Cardinality(SignerSlots(last.accounts)) = 1
        /\ \A i \in SignerSlots(last.accounts) :
              /\ last.accounts[i].pubkey = last.args[1]
              /\ last.accounts[i].is_writable = (last.op # "remove_affiliate_ix")

C1_Witness ==
    /\ last.op = "remove_affiliate_ix"
    /\ Returned(last)
    /\ Len(last.accounts) = 4

\* little-endian decoding of a two-byte and of an eight-byte field, the
\* latter as four 16-bit limbs
DecodeU16(b) == b[1] + 256 * b[2]
DecodeU64(b) == [i \in 1..4 |-> b[2 * i - 1] + 256 * b[2 * i]]
DecodeU32(b) == b[1] + 256 * b[2] + 65536 * b[3] + 16777216 * b[4]

\* C2: for a commission_rate that fits u16 and an initial_deposit that fits
\* u64, initialize_pool_ix returns data of exactly 18 bytes: the 8-byte
\* initialize_pool discriminator, then 2 and 8 bytes that decode
\* (little-endian u16, u64) to (commission_rate, initial_deposit).
C2_InitializePoolRoundTrip ==
    (/\ last.op = "initialize_pool_ix"
     /\ FitsUnsigned(last.args[3], 1)
     /\ FitsUnsigned(last.args[4], 4)) =>
        /\ Returned(last)
        /\ Len(last.data) = 18
        /\ SubSeq(last.data, 1, 8) = <<95, 180, 10, 172, 84, 174, 232, 40>>
        /\ <<DecodeU16(SubSeq(last.data, 9, 10))>> = PadLimbs(last.args[3].mag, 1)
        /\ DecodeU64(SubSeq(last.data, 11, 18)) = PadLimbs(last.args[4].mag, 4)

C2_Witness ==
    /\ last.op = "initialize_pool_ix"
    /\ last.args[3] = Nat0(<<500>>)
    /\ last.args[4] = Nat0(<<16960, 15>>)
    /\ Returned(last)
    /\ Len(last.data) = 18

\* the number of bytes UTF-8 takes for one code point
Utf8Len(cp) ==
    IF cp < 128 THEN 1 ELSE IF cp < 2048 THEN 2 ELSE IF cp < 65536 THEN 3 ELSE 4

RECURSIVE Utf8Count(_)
Utf8Count(s) == IF s = <<>> THEN 0 ELSE Utf8Len(Head(s)) + Utf8Count(Tail(s))

RECURSIVE Utf8Decode(_)
\* the code points of a UTF-8 byte string
Utf8Decode(b) ==
    IF b = <<>> THEN <<>>
    ELSE IF b[1] < 128 THEN <<b[1]>> \o Utf8Decode(SubSeq(b, 2, Len(b)))
    ELSE IF b[1] < 224 THEN
        <<(b[1] - 192) * 64 + (b[2] - 128)>> \o Utf8Decode(SubSeq(b, 3, Len(b)))
    ELSE IF b[1] < 240 THEN
        <<(b[1] - 224) * 4096 + (b[2] - 128) * 64 + (b[3] - 128)>>
            \o Utf8Decode(SubSeq(b, 4, Len(b)))
    ELSE
        <<(b[1] - 240) * 262144 + (b[2] - 128) * 4096 + (b[3] - 128) * 64
            + (b[4] - 128)>> \o Utf8Decode(SubSeq(b, 5, Len(b)))

\* C3: for every ref_id that UTF-8 encodes, add_affiliate_ix returns data
\* made of the discriminator, a 4-byte little-endian count equal to the
\* number of UTF-8 bytes of ref_id (not of its characters), then exactly
\* those bytes and nothing else: the length is 8 + 4 + the byte count and
\* the tail decodes back to ref_id.  (A ref_id that does not encode, one
\* with a lone surrogate, yields no data at all.)
C3_RefIdLengthPrefixed ==
    last.op = "add_affiliate_ix" =>
        LET ref_id == last.args[3]
            n == Utf8Count(ref_id)
            encodable == \A i \in 1..Len(ref_id) : ~IsSurrogate(ref_id[i])
        IN  /\ Returned(last) <=> encodable
            /\ Returned(last) =>
                  /\ Len(last.data) = 8 + 4 + n
                  /\ SubSeq(last.data, 1, 8) = <<221, 239, 60, 159, 213, 45, 221, 87>>
                  /\ DecodeU32(SubSeq(last.data, 9, 12)) = n
                  /\ Utf8Decode(SubSeq(last.data, 13, Len(last.data))) = ref_id

C3_Witness ==
    /\ last.op = "add_affiliate_ix"
    /\ Returned(last)
    /\ last.args[3] = <<233, 65>>
    /\ Len(last.data) = 15

\* a non-negative Python int above 10000
Above10000(v) == ~v.neg /\ (Len(v.mag) > 1 \/ (Len(v.mag) = 1 /\ v.mag[1] > 10000))

\* C4 as stated: initialize_pool_ix rejects no commission_rate above 10000
\* (the other arguments being encodable); rejection happens on submission
\* only.
C4_NoRateAboveLimitRejected ==
    (/\ last.op = "initialize_pool_ix"
     /\ Above10000(last.args[3])
     /\ FitsUnsigned(last.args[4], 4)) => Returned(last)

\* C4, amended: initialize_pool_ix checks no business range of
\* commission_rate: every value of 0..65535, so 0, 10000 and 10001, is
\* encoded without the encoder raising; the width of the u16 field is the
\* one upper bound, and a value of 2^16 or more makes the packing raise.
C4_NoRangeValidationWithinU16 ==
    (last.op = "initialize_pool_ix" /\ FitsUnsigned(last.args[4], 4)) =>
        /\ FitsUnsigned(last.args[3], 1) =>
              (Returned(last) /\ Len(last.data) = 18)
        /\ (~last.args[3].neg /\ Len(last.args[3].mag) > 1) =>
              (last.status = "struct.error" /\ last.appended = 0)

C4_Witness ==
    /\ last.op = "initialize_pool_ix"
    /\ last.args[3] = Nat0(<<10001>>)
    /\ Returned(last)

\* the integer arguments of an encoder call with the limbs of their fields,
\* in packing order
IntFields(c) ==
    CASE c.op = "initialize_pool_ix" -> << <<c.args[3], 1>>, <<c.args[4], 4>> >>
      [] c.op = "process_sale_ix" -> << <<c.args[5], 4>> >>
      [] c.op \in {"deposit_escrow_ix", "withdraw_escrow_ix"} ->
            << <<c.args[3], 4>> >>
      [] OTHER -> <<>>

Misfits(c) ==
    {i \in 1..Len(IntFields(c)) : ~FitsUnsigned(IntFields(c)[i][1], IntFields(c)[i][2])}

NoInstruction(c) ==
    /\ ~Returned(c)
    /\ c.program_id = <<>>
    /\ c.data = <<>>
    /\ c.accounts = <<>>

\* C5 as stated: an integer argument that does not fit its field makes the
\* call end in an error with no instruction and no payload, and the call is
\* rejected before any byte-packing has taken place.
C5_RejectedBeforePacking ==
    (IsEncoderCall(last) /\ Misfits(last) # {}) =>
        (NoInstruction(last) /\ last.appended = 0)

\* C5, amended: an integer argument that does not fit its field makes the
\* call end in an error, with no instruction returned and no truncated or
\* wrapped payload; the error is raised by the packing of the first such
\* field, after the derivations and after every earlier field was packed
\* and appended (initialize_pool_ix with a fitting rate and an oversized
\* deposit has packed the rate), not by a check ahead of the packing.
C5_RejectedByPacking ==
    (IsEncoderCall(last) /\ Misfits(last) # {}) =>
        /\ NoInstruction(last)
        /\ last.status = "struct.error" =>
              \E i \in Misfits(last) :
                  /\ \A j \in Misfits(last) : i <= j
                  /\ last.appended = i - 1

C5_Witness ==
    /\ last.op = "initialize_pool_ix"
    /\ last.args[3] = Nat0(<<500>>)
    /\ last.args[4] = Nat0(<<0, 0, 0, 0, 1>>)
    /\ last.status = "struct.error"
    /\ last.appended = 1

\* the table key of an encoder
KeyOf(op) ==
    CASE op = "initialize_pool_ix" -> "initialize_pool"
      [] op = "add_affiliate_ix" -> "add_affiliate"
      [] op = "process_sale_ix" -> "process_sale"
      [] op = "remove_affiliate_ix" -> "remove_affiliate"
      [] op = "deposit_escrow_ix" -> "deposit_escrow"
      [] op = "withdraw_escrow_ix" -> "withdraw_escrow"

\* C6: the six discriminators are 8 bytes each and pairwise distinct; every
\* instruction an encoder returns targets the fixed program identifier and
\* starts with the discriminator of its own operation, so that the first 8
\* bytes name exactly that operation; remove_affiliate_ix data is the
\* discriminator alone.
C6_DiscriminatorIdentifiesOperation ==
    /\ \A n \in DOMAIN DISCRIMINATORS : Len(DISCRIMINATORS[n]) = 8
    /\ \A n, m \in DOMAIN DISCRIMINATORS :
          n # m => DISCRIMINATORS[n] # DISCRIMINATORS[m]
    /\ Cardinality(DOMAIN DISCRIMINATORS) = 6
    /\ (IsEncoderCall(last) /\ Returned(last)) =>
          /\ last.program_id = InitProgramId
          /\ Len(last.data) >= 8
          /\ {n \in DOMAIN InitDiscriminators :
                 InitDiscriminators[n] = SubSeq(last.data, 1, 8)}
               = {KeyOf(last.op)}
          /\ last.op = "remove_affiliate_ix" =>
                last.data = <<146, 218, 182, 122, 118, 1, 69, 31>>

C6_Witness ==
    /\ last.op = "withdraw_escrow_ix"
    /\ Returned(last)
    /\ SubSeq(last.data, 1, 8) = <<81, 84, 226, 128, 245, 47, 96, 104>>

\* C7: a derivation called again with the same inputs returns the same
\* address and the same bump as before, whatever calls were made in between.
C7_DerivationDeterministic ==
    (/\ last.op \in DerivationOps
     /\ remembered.op = last.op
     /\ remembered.args = last.args) =>
        /\ last.status = remembered.status
        /\ last.addr = remembered.addr
        /\ last.bump = remembered.bump

C7_Witness ==
    /\ last.op = "find_escrow_authority_pda"
    /\ remembered.op = last.op
    /\ remembered.args = last.args
    /\ between
    /\ Returned(last)
    /\ last.addr = remembered.addr

\* the seeds and the owning program of a derivation call
SeedsOf(c) ==
    CASE c.op = "find_pool_pda" -> <<TagPool, c.args[1]>>
      [] c.op = "find_escrow_authority_pda" -> <<TagEscrowAuthority, c.args[1]>>
      [] c.op = "find_affiliate_pda" -> <<TagAffiliate, c.args[1], c.args[2]>>
      [] c.op = "find_associated_token_address" ->
            <<c.args[1], InitTokenProgramId, c.args[2]>>

OwnerOf(c) ==
    IF c.op = "find_associated_token_address"
    THEN InitAssociatedTokenProgramId ELSE InitProgramId

\* the bumps of the range for which the construction gives a valid address
ValidBumps(c) ==
    {b \in 0..MAX_BUMP :
        ~is_on_curve(create_program_address(SeedsOf(c), b, OwnerOf(c)))}

\* C8 as stated: the bump a derivation returns is the smallest valid bump.
C8_BumpIsSmallestValid ==
    (last.op \in DerivationOps /\ Returned(last)) =>
        /\ last.bump \in ValidBumps(last)
        /\ \A b \in ValidBumps(last) : last.bump <= b

\* C8, amended: the bump a derivation returns is the largest value of the
\* range 0..255 for which the construction yields a valid (non-curve-point)
\* address, and the address returned is the one constructed with it.
C8_BumpIsLargestValid ==
    (last.op \in DerivationOps /\ Returned(last)) =>
        /\ last.bump \in ValidBumps(last)
        /\ \A b \in ValidBumps(last) : b <= last.bump
        /\ last.addr = create_program_address(SeedsOf(last), last.bump, OwnerOf(last))

C8_Witness ==
    /\ last.op \in DerivationOps
    /\ Returned(last)
    /\ last.bump < MAX_BUMP
    /\ \E b \in ValidBumps(last) : b < last.bump

\* what a call returns when it runs with no other caller: the whole method
\* evaluated in one piece
Alone(op, a) ==
    CASE op = "initialize_pool_ix" ->
            EncoderCall(op, a, initialize_pool_ix(a[1], a[2], a[3], a[4]))
      [] op = "add_affiliate_ix" ->
            EncoderCall(op, a, add_affiliate_ix(a[1], a[2], a[3]))
      [] op = "process_sale_ix" ->
            EncoderCall(op, a, process_sale_ix(a[1], a[2], a[3], a[4], a[5]))
      [] op = "remove_affiliate_ix" ->
            EncoderCall(op, a, remove_affiliate_ix(a[1], a[2]))
      [] op = "deposit_escrow_ix" ->
            EncoderCall(op, a, deposit_escrow_ix(a[1], a[2], a[3]))
      [] op = "withdraw_escrow_ix" ->
            EncoderCall(op, a, withdraw_escrow_ix(a[1], a[2], a[3]))
      [] op = "find_pool_pda" ->
            DerivationCall(op, a, find_pool_pda(a[1]))
      [] op = "find_escrow_authority_pda" ->
            DerivationCall(op, a, find_escrow_authority_pda(a[1]))
      [] op = "find_affiliate_pda" ->
            DerivationCall(op, a, find_affiliate_pda(a[1], a[2]))
      [] op = "find_associated_token_address" ->
            DerivationCall(op, a, find_associated_token_address(a[1], a[2]))

ClassStateInitial ==
    /\ PROGRAM_ID = InitProgramId
    /\ TOKEN_PROGRAM_ID = InitTokenProgramId
    /\ ASSOCIATED_TOKEN_PROGRAM_ID = InitAssociatedTokenProgramId
    /\ DISCRIMINATORS = InitDiscriminators

\* C10: under every interleaving of the statements of derivation and encoder
\* calls made by concurrent callers, the class-level discriminator table and
\* program identifiers keep their initial values, no call has invoked the RPC
\* client, and every completed call holds the result the same call gives
\* when it runs alone.
C10_ConcurrentCallsIndependent ==
    /\ ClassStateInitial
    /\ \A c \in Callers :
          /\ callers[c].rpc = 0
          /\ callers[c].out.rpc = 0
          /\ callers[c].pc = "done" =>
                callers[c].out = Alone(callers[c].op, callers[c].args)

\* one caller has its instruction while another caller, in the same encoder
\* with the same table entry, is in the middle of its `data +=` statements
C10_Witness ==
    \E c, d \in Callers :
        /\ c # d
        /\ callers[c].pc = "done"
        /\ callers[c].op = "initialize_pool_ix"
        /\ Returned(callers[c].out)
        /\ callers[d].pc = "append"
        /\ callers[d].op = "initialize_pool_ix"
        /\ callers[d].appended = 1

\* the requests a submission may make of the client: the blockhash alone,
\* or the blockhash and then one send
SingleAttempts ==
    {<<"get_latest_blockhash">>, <<"get_latest_blockhash", "send_transaction">>}

\* C11: send_transaction returns a transaction identifier only when both
\* the blockhash request and the send succeeded.  When the blockhash
\* request fails, the send fails, or the cluster rejects the transaction
\* (an initialize_pool with a commission rate above 10000 is always
\* rejected), the call raises and returns no identifier.  Every call asks
\* for the blockhash first and sends at most once: a failed blockhash
\* request is followed by no send, and a return by exactly one.
C11_SubmissionFailureRaised ==
    last.op = "send_transaction" =>
        LET rpc == last.args[3]
            rate == last.args[4][3]
        IN  /\ rpc # "ok" => (~Returned(last) /\ last.sig = "")
            /\ Returned(last) <=> last.sig # ""
            /\ (last.args[1] = "initialize_pool_ix" /\ Above10000(rate))
                   => (~Returned(last) /\ last.sig = "")
            /\ last.requests \in SingleAttempts
            /\ Returned(last)
                   => last.requests = <<"get_latest_blockhash", "send_transaction">>
            /\ rpc = "blockhash_error" => last.requests = <<"get_latest_blockhash">>

C11_Witness ==
    /\ last.op = "send_transaction"
    /\ last.args[1] = "initialize_pool_ix"
    /\ last.args[4][3] = Nat0(<<10001>>)
    /\ last.args[3] = "rejected"
    /\ last.status = "rejected"
    /\ last.requests = <<"get_latest_blockhash", "send_transaction">>

\* the addresses of section 3 of the specification, from the seeds and the
\* program identifiers the class is built with
PoolAddress(merchant) ==
    find_program_address(<<TagPool, merchant>>, InitProgramId).addr
EscrowAuthorityAddress(pool) ==
    find_program_address(<<TagEscrowAuthority, pool>>, InitProgramId).addr
AffiliateAddress(pool, wallet) ==
    find_program_address(<<TagAffiliate, pool, wallet>>, InitProgramId).addr
AssociatedTokenAddress(owner, mint) ==
    find_program_address(<<owner, InitTokenProgramId, mint>>,
                         InitAssociatedTokenProgramId).addr

\* the addresses an account list holds, slot by slot
Pubkeys(accounts) == [i \in 1..Len(accounts) |-> accounts[i].pubkey]

\* merchant, affiliate wallet and mint of an encoder call
MerchantOf(c) == IF c.op = "process_sale_ix" THEN c.args[2] ELSE c.args[1]
WalletOf(c) == IF c.op = "process_sale_ix" THEN c.args[3] ELSE c.args[2]
MintOf(c) == IF c.op = "process_sale_ix" THEN c.args[4] ELSE c.args[2]

\* the addresses the chain of derivations gives for an encoder call
ChainPubkeys(c) ==
    LET merchant == MerchantOf(c)
        wallet == WalletOf(c)
        mint == MintOf(c)
        pool == PoolAddress(merchant)
        escrow_authority == EscrowAuthorityAddress(pool)
        affiliate == AffiliateAddress(pool, wallet)
        merchant_token == AssociatedTokenAddress(merchant, mint)
        escrow_token == AssociatedTokenAddress(escrow_authority, mint)
        affiliate_token == AssociatedTokenAddress(wallet, mint)
    IN  CASE c.op = "initialize_pool_ix" ->
                <<pool, merchant, merchant_token, escrow_authority, escrow_token,
                  mint, InitTokenProgramId, InitAssociatedTokenProgramId,
                  SYS_PROGRAM_ID>>
          [] c.op = "add_affiliate_ix" ->
                <<pool, affiliate, wallet, merchant, SYS_PROGRAM_ID>>
          [] c.op = "process_sale_ix" ->
                <<pool, affiliate, wallet, escrow_authority, escrow_token,
                  affiliate_token, mint, c.args[1], InitTokenProgramId,
                  InitAssociatedTokenProgramId, SYS_PROGRAM_ID>>
          [] c.op = "remove_affiliate_ix" ->
                <<pool, affiliate, wallet, merchant>>
          [] c.op \in {"deposit_escrow_ix", "withdraw_escrow_ix"} ->
                <<pool, merchant, merchant_token, escrow_authority, escrow_token,
                  mint, InitTokenProgramId>>

\* C14: the account list of every returned instruction holds, slot by slot,
\* the addresses of one derivation chain from the call's inputs: slot 0 is
\* pool(merchant), with the merchant argument rather than the authority in
\* process_sale_ix; escrow-authority is derived from that pool, affiliate
\* from that pool and the affiliate wallet, and the token accounts from
\* merchant, escrow-authority and affiliate wallet with the mint.  The
\* chain depends on merchant, wallet and mint alone, so the operations
\* agree on pool, escrow-authority and escrow-token for the same merchant
\* and mint, and deposit_escrow_ix and withdraw_escrow_ix build the same
\* account list from the same arguments.
C14_AccountsFollowDerivationChain ==
    (IsEncoderCall(last) /\ Returned(last)) =>
        /\ Pubkeys(last.accounts) = ChainPubkeys(last)
        /\ last.op \in {"deposit_escrow_ix", "withdraw_escrow_ix"} =>
              /\ last.accounts =
                    deposit_escrow_ix(last.args[1], last.args[2], last.args[3]).accounts
              /\ last.accounts =
                    withdraw_escrow_ix(last.args[1], last.args[2], last.args[3]).accounts

C14_Witness ==
    /\ last.op = "process_sale_ix"
    /\ Returned(last)
    /\ last.args[1] # last.args[2]
    /\ last.accounts[1].pubkey = PoolAddress(last.args[2])
    /\ last.accounts[1].pubkey # PoolAddress(last.args[1])
    /\ last.accounts[5].pubkey =
           AssociatedTokenAddress(EscrowAuthorityAddress(PoolAddress(last.args[2])),
                                  last.args[4])

---------------------------------------------------------------------------
(* Properties of the IDL fix-up script.                                    *)

\* fix_idl has returned in this run
FixIdlReturned == genpy.pc \in {"write", "client_gen", "except_client_gen",
                                "except", "finally", "done"}
                  /\ genpy.fixed # JNull

\* the instructions of a document, when it has a list of them
InstructionsOf(doc) ==
    IF isinstance_dict(doc) /\ dict_has(doc, "instructions")
       /\ dict_item(doc, "instructions").kind = "list"
    THEN dict_item(doc, "instructions").items
    ELSE <<>>

\* the account entries of an instruction, when it has any
AccountsOf(instr) ==
    IF isinstance_dict(instr) /\ dict_has(instr, "accounts")
    THEN elements(dict_item(instr, "accounts"))
    ELSE <<>>

Keys_(d) == {d.items[i].k : i \in 1..Len(d.items)}

\* what C12 says of one account entry before and after
AccountFixed(before, after) ==
    IF isinstance_str(before) THEN after = before
    ELSE /\ isinstance_dict(after)
         /\ Keys_(after) \subseteq {"name", "writable", "signer", "pda", "address"}
         /\ \A key \in {"writable", "signer"} :
               /\ dict_has(after, key)
               /\ dict_item(after, key) =
                      IF dict_has(before, key) THEN dict_item(before, key)
                      ELSE JBool(FALSE)
         /\ dict_has(before, "name") =>
               (dict_has(after, "name")
                /\ dict_item(after, "name") = dict_item(before, "name"))

\* C12: once fix_idl has returned, every instruction still has as many
\* account entries as before, in the same order; a string entry is
\* unchanged; a mapping entry has only keys among name, writable, signer,
\* pda, address, and has both writable and signer, each with the value it
\* had before, or false when it was absent.
C12_AccountsNormalised ==
    FixIdlReturned =>
        /\ Len(InstructionsOf(genpy.fixed)) = Len(InstructionsOf(genpy.idl))
        /\ \A i \in 1..Len(InstructionsOf(genpy.idl)) :
              LET before == AccountsOf(InstructionsOf(genpy.idl)[i])
                  after == AccountsOf(InstructionsOf(genpy.fixed)[i])
              IN  /\ Len(after) = Len(before)
                  /\ \A j \in 1..Len(before) : AccountFixed(before[j], after[j])

C12_Witness ==
    /\ FixIdlReturned
    /\ genpy.idl = Idl(<<Instr(<<JStr(<<"pool">>),
                                 JDict(<<Pair("isMut", JBool(TRUE)),
                                         Pair("signer", JBool(TRUE))>> \o Name)>>)>>)
    /\ genpy.fixed = Idl(<<Instr(<<JStr(<<"pool">>),
                                   JDict(<<Pair("signer", JBool(TRUE))>> \o Name
                                         \o <<Pair("writable", JBool(FALSE))>>)>>)>>)

\* `first` is the part of `full` before its first dot
IsFirstComponent(full, first) ==
    /\ \A i \in 1..Len(first) : first[i] # "."
    /\ Len(first) <= Len(full)
    /\ SubSeq(full, 1, Len(first)) = first
    /\ Len(first) = Len(full) \/ full[Len(first) + 1] = "."

IsAccountKind(seed) ==
    dict_has(seed, "kind") /\ dict_item(seed, "kind") = JStr(<<"account">>)

\* what C13 says of one seed before and after
SeedFixed(before, after) ==
    /\ isinstance_dict(after)
    /\ ~dict_has(after, "account")
    /\ dict_has(after, "path") <=> dict_has(before, "path")
    /\ dict_has(before, "path") =>
          IF IsAccountKind(before)
          THEN /\ isinstance_str(dict_item(after, "path"))
               /\ IsFirstComponent(dict_item(before, "path").val,
                                   dict_item(after, "path").val)
          ELSE dict_item(after, "path") = dict_item(before, "path")

ProgramWellFormed(pda) ==
    /\ dict_has(pda, "program")
    /\ isinstance_dict(dict_item(pda, "program"))
    /\ dict_has(dict_item(pda, "program"), "kind")
    /\ dict_has(dict_item(pda, "program"), "value")

\* what C13 says of one derivation description before and after
PdaFixed(before, after) ==
    IF ~isinstance_dict(before) THEN after = before
    ELSE /\ isinstance_dict(after)
         /\ dict_has(after, "seeds") <=> dict_has(before, "seeds")
         /\ dict_has(before, "seeds") =>
               LET old == elements(dict_item(before, "seeds"))
                   new == elements(dict_item(after, "seeds"))
               IN  /\ Len(new) = Len(old)
                   /\ \A k \in 1..Len(old) : SeedFixed(old[k], new[k])
         /\ dict_has(after, "program") <=> ProgramWellFormed(before)
         /\ dict_has(after, "program") =>
               dict_item(after, "program") = dict_item(before, "program")

\* C13: once fix_idl has returned, in every account that has a pda: each
\* seed of kind 'account' with a path holds the part of its path before the
\* first dot; seeds of other kinds keep their path; no seed has an 'account'
\* field; and the pda has a 'program' exactly when it had one that is a
\* mapping with both 'kind' and 'value', which it keeps as it was.
C13_PdaFlattened ==
    FixIdlReturned =>
        \A i \in 1..Len(InstructionsOf(genpy.idl)) :
            LET before == AccountsOf(InstructionsOf(genpy.idl)[i])
                after == AccountsOf(InstructionsOf(genpy.fixed)[i])
            IN  \A j \in 1..Len(before) :
                    (isinstance_dict(before[j]) /\ dict_has(before[j], "pda")) =>
                        /\ dict_has(after[j], "pda")
                        /\ PdaFixed(dict_item(before[j], "pda"),
                                    dict_item(after[j], "pda"))

C13_Witness ==
    /\ FixIdlReturned
    /\ genpy.idl =
         Idl(<<Instr(<<JDict(Name \o <<Pair("pda",
                 JDict(<<Pair("seeds", JList(TwoSeeds)),
                         Pair("program", JStr(<<"a">>))>>))>>)>>)>>)
    /\ genpy.fixed =
         Idl(<<Instr(<<JDict(Name \o <<Pair("pda",
                 JDict(<<Pair("seeds", JList(
                     <<JDict(KindAccount \o PathOf(<<"a">>)),
                       JDict(KindConst \o PathOf(<<"a", ".", "a">>))>>))>>))>>
                 \o <<Pair("writable", JBool(FALSE)),
                      Pair("signer", JBool(FALSE))>>)>>)>>)

\* the run has ended
Done == genpy.pc = "done"

\* the generator was started only after the fixed IDL had been saved
ClientGenAfterSave ==
    \A i \in 1..Len(genpy.log) :
        genpy.log[i] = "client_gen" => \E j \in 1..(i - 1) : genpy.log[j] = "saved"

\* C15 as stated: a run that has ended propagated no exception and left no
\* contract.json behind, on every path; the generator is started only
\* after the fixed IDL has been written.
C15_ContractJsonAlwaysRemoved ==
    /\ Done => (~genpy.propagated /\ genpy.contract_json = "absent")
    /\ ClientGenAfterSave

\* C15: every run of main() ends, and ends without propagating an
\* exception, whether the IDL cannot be read or parsed, fix_idl raises, the
\* fixed IDL cannot be written, client generation fails, or all succeeds.
\* The last thing a run does is try to remove contract.json: the file is
\* gone when the removal succeeds, and when the removal itself raises the
\* run reports it and leaves the file as it was.  The generator is started
\* only after the fixed IDL has been written.
C15_RunEndsAndTriesRemoval ==
    /\ <>Done
    /\ [](Done =>
            /\ ~genpy.propagated
            /\ genpy.log # <<>>
            /\ genpy.log[Len(genpy.log)] \in {"removed", "could_not_remove"}
            /\ genpy.log[Len(genpy.log)] = "removed" => genpy.contract_json = "absent")
    /\ []ClientGenAfterSave

C15_Witness ==
    /\ Done
    /\ ~genpy.propagated
    /\ genpy.exc = "CalledProcessError"
    /\ genpy.log = <<"saved", "client_gen", "client_gen_error", "could_not_remove">>
    /\ genpy.contract_json = "fixed"

====
